---- MODULE Spec2Model ----
(***************************************************************************)
(* Model of src/format/demuxer/demux.rs: the Demuxer / DemuxerBuilder      *)
(* traits, the probe() selector and the Test demuxer of the test module.   *)
(*                                                                         *)
(* An invocation of probe() is a small sequential process: one step per    *)
(* iteration of the `for builder in demuxers` loop, one step for the final *)
(* threshold test.  The caller then may alloc() a demuxer from the         *)
(* returned builder and drive it with open / read_headers / read_packet.   *)
(* Rust indices are 0-based; sequences here are 1-based, so data[0] of the *)
(* source is data[1] of the model.                                         *)
(***************************************************************************)
EXTENDS Integers, Sequences, FiniteSets, TLC

(***************************************************************************)
(* Program constants                                                       *)
(***************************************************************************)
\* Score::EXTENSION, Score::MIME, Score::MAX
EXTENSION == 50
MIME == 75
MAX == 100
\* u8::min_value() and u8::max_value(): the range of DemuxerBuilder::probe
U8Min == 0
U8Max == 255

(***************************************************************************)
(* Bounds of the model                                                     *)
(***************************************************************************)
\* largest registry explored by the single-invocation specification
MaxBuilders == 3
\* largest registry explored by the concurrent specification
ConcBuilders == 2
\* number of concurrent probe() invocations in the concurrent specification
NumInvocations == 2
\* the sample is modelled by its first SampleLen bytes (of PROBE_DATA)
SampleLen == 2
\* longest sequence of lifecycle calls made on one demuxer instance
MaxCalls == 3

\* The byte values a sample is built from: the two the test fills its buffer
\* with (buf = [1; PROBE_DATA], then buf[0] = 0).
ByteValues == {0, 1}

\* The [u8; PROBE_DATA] samples, cut to their first SampleLen bytes.
Samples == [1..SampleLen -> ByteValues]

\* Representative u8 scores a builder may return: the three named thresholds,
\* their neighbours and the ends of the u8 range.
ScoreValues == {U8Min, EXTENSION, EXTENSION + 1, MIME, MAX, U8Max}

\* Option<&DemuxerBuilder>: None is 0, Some(&demuxers[i]) is the index i.
None == 0

(***************************************************************************)
(* Builders                                                                *)
(***************************************************************************)
\* TestDemuxerBuilder {} of the test module.
TestDemuxerBuilder == [kind |-> "Test", score |-> MAX]

\* Any other implementation of the DemuxerBuilder trait, here one whose probe
\* answers a fixed u8 whatever the sample.
FixedBuilders == [kind : {"Fixed"}, score : ScoreValues]

Builders == {TestDemuxerBuilder} \cup FixedBuilders

\* Faulty variant of TestProbe: inspects the second byte of the sample.
TestProbeSecondByte(data) == IF data[2] = 0 THEN MAX ELSE 0

\* TestDemuxerBuilder::probe
TestProbe(data) == IF data[1] = 0 THEN MAX ELSE 0

\* builder.probe(data), dispatched on the implementation
BuilderProbe(b, data) == IF b.kind = "Test" THEN TestProbe(data) ELSE b.score

(***************************************************************************)
(* probe(): the body of one loop iteration and the final threshold test    *)
(***************************************************************************)
\* Faulty variant of Visit: a greater-or-equal comparison, so a later tie replaces
\* the leader.
VisitGe(st, i, score) ==
    IF score >= st.max THEN [max |-> score, candidate |-> i] ELSE st

\* Faulty variant of Visit: the comparison is dropped, the last builder always leads.
VisitLast(st, i, score) == [max |-> score, candidate |-> i]

\* if score > max { max = score; candidate = Some(*builder); }
Visit(st, i, score) ==
    IF score > st.max THEN [max |-> score, candidate |-> i] ELSE st

\* Faulty variant of Select: the threshold is accepted (>= instead of >).
SelectGe(st) == IF st.max >= EXTENSION THEN st.candidate ELSE None

\* Faulty variant of Select: the threshold test is dropped.
SelectAlways(st) == st.candidate

\* if max > Score::EXTENSION as u8 { candidate } else { None }
Select(st) == IF st.max > EXTENSION THEN st.candidate ELSE None

\* let mut max = u8::min_value(); let mut candidate = None;
ScanStart == [max |-> U8Min, candidate |-> None]

\* The state of the scan after the first n builders have been visited.
RECURSIVE ScanTo(_, _, _)
ScanTo(demuxers, data, n) ==
    IF n = 0 THEN ScanStart
    ELSE Visit(ScanTo(demuxers, data, n - 1), n, BuilderProbe(demuxers[n], data))

\* probe(demuxers, data) run to completion on its own.
probe(demuxers, data) == Select(ScanTo(demuxers, data, Len(demuxers)))

(***************************************************************************)
(* State                                                                   *)
(***************************************************************************)
VARIABLES
    demuxers,   \* the registry: the slice of builders every invocation reads
    data,       \* data[p]: the sample of invocation p
    pc,         \* pc[p]: "scan" (in the for loop) or "done" (returned)
    idx,        \* idx[p]: index of the next builder the loop visits
    score,      \* score[p]: the score received in the last iteration
    scan,       \* scan[p]: the locals max and candidate
    result,     \* result[p]: the value returned by probe()
    calls,      \* calls[p]: the builder probes made, as <<builder index, sample>>
    demux       \* demux[p]: the demuxer the caller allocated, and its call log

vars == <<demuxers, data, pc, idx, score, scan, result, calls, demux>>

Invocations == DOMAIN pc

\* No demuxer allocated yet.
NoDemuxer == [allocated |-> FALSE, log |-> <<>>]

\* The registries of at most n builders drawn from the set bs.
RegistriesUpTo(bs, n) == UNION {[1..k -> bs] : k \in 0..n}

InitWith(procs, registries, samples) ==
    /\ demuxers \in registries
    /\ data \in [procs -> samples]
    /\ pc = [p \in procs |-> "scan"]
    /\ idx = [p \in procs |-> 1]
    /\ score = [p \in procs |-> U8Min]
    /\ scan = [p \in procs |-> ScanStart]
    /\ result = [p \in procs |-> None]
    /\ calls = [p \in procs |-> <<>>]
    /\ demux = [p \in procs |-> NoDemuxer]

\* One probe() invocation over any registry of at most MaxBuilders builders.
Init == InitWith({1}, RegistriesUpTo(Builders, MaxBuilders), Samples)

\* The builders of the concurrent specification: the test builder, one
\* builder at the threshold and one above it.
ConcBuilderSet ==
    {TestDemuxerBuilder, [kind |-> "Fixed", score |-> EXTENSION],
     [kind |-> "Fixed", score |-> MIME]}

\* The uniform samples [b; PROBE_DATA], as the test builds its buffer.
UniformSamples == {[k \in 1..SampleLen |-> b] : b \in ByteValues}

\* NumInvocations probe() invocations, each with its own sample and locals,
\* over one shared registry of at most ConcBuilders builders.
InitConc ==
    InitWith(1..NumInvocations, RegistriesUpTo(ConcBuilderSet, ConcBuilders),
             UniformSamples)

(***************************************************************************)
(* probe(): actions                                                        *)
(***************************************************************************)
\* Faulty variant of ScanBuilder: max and candidate are shared by all invocations
\* (as a static would be) instead of being locals of each call.
ScanBuilderShared(p) ==
    /\ pc[p] = "scan"
    /\ idx[p] <= Len(demuxers)
    /\ LET s == BuilderProbe(demuxers[idx[p]], data[p])
           st == Visit(scan[p], idx[p], s)
       IN /\ score' = [score EXCEPT ![p] = s]
          /\ scan' = [q \in DOMAIN scan |-> st]
          /\ calls' = [calls EXCEPT ![p] = Append(@, <<idx[p], data[p]>>)]
    /\ idx' = [idx EXCEPT ![p] = @ + 1]
    /\ UNCHANGED <<demuxers, data, pc, result, demux>>

\* Faulty variant of ScanBuilder: the loop breaks once a builder scores MAX.
ScanBuilderEarlyExit(p) ==
    /\ pc[p] = "scan"
    /\ idx[p] <= Len(demuxers)
    /\ LET s == BuilderProbe(demuxers[idx[p]], data[p])
       IN /\ score' = [score EXCEPT ![p] = s]
          /\ scan' = [scan EXCEPT ![p] = Visit(@, idx[p], s)]
          /\ calls' = [calls EXCEPT ![p] = Append(@, <<idx[p], data[p]>>)]
          /\ idx' = [idx EXCEPT ![p] = IF s >= MAX THEN Len(demuxers) + 1 ELSE @ + 1]
    /\ UNCHANGED <<demuxers, data, pc, result, demux>>

\* One iteration of `for builder in demuxers`: call builder.probe(data) and
\* update max and candidate.
ScanBuilder(p) ==
    /\ pc[p] = "scan"
    /\ idx[p] <= Len(demuxers)
    /\ LET s == BuilderProbe(demuxers[idx[p]], data[p])
       IN /\ score' = [score EXCEPT ![p] = s]
          /\ scan' = [scan EXCEPT ![p] = Visit(@, idx[p], s)]
          /\ calls' = [calls EXCEPT ![p] = Append(@, <<idx[p], data[p]>>)]
    /\ idx' = [idx EXCEPT ![p] = @ + 1]
    /\ UNCHANGED <<demuxers, data, pc, result, demux>>

\* The loop is over: the threshold test and the return.
Return(p) ==
    /\ pc[p] = "scan"
    /\ idx[p] > Len(demuxers)
    /\ result' = [result EXCEPT ![p] = Select(scan[p])]
    /\ pc' = [pc EXCEPT ![p] = "done"]
    /\ UNCHANGED <<demuxers, data, idx, score, scan, calls, demux>>

(***************************************************************************)
(* The Test demuxer: struct TestDemuxer {} and its three operations        *)
(***************************************************************************)
\* open => { () }
TestOpen == "unit"
\* read_headers => { Ok(()) }
TestReadHeaders == "Ok"
\* read_packet => { unimplemented!() }: the call panics
TestReadPacket == "panic"

\* A panic unwinds the caller: no further call is made on the instance.
Usable(d) ==
    /\ d.allocated
    /\ Len(d.log) < MaxCalls
    /\ \A k \in 1..Len(d.log) : d.log[k].out # "panic"

Call(p, op, out) ==
    /\ Usable(demux[p])
    /\ demux' = [demux EXCEPT ![p].log = Append(@, [op |-> op, out |-> out])]
    /\ UNCHANGED <<demuxers, data, pc, idx, score, scan, result, calls>>

\* builder.alloc() on the builder probe() returned.  TestDemuxerBuilder is
\* the only builder whose alloc the source defines: box TestDemuxer {}.
Alloc(p) ==
    /\ pc[p] = "done"
    /\ result[p] # None
    /\ demuxers[result[p]].kind = "Test"
    /\ ~demux[p].allocated
    /\ demux' = [demux EXCEPT ![p] = [allocated |-> TRUE, log |-> <<>>]]
    /\ UNCHANGED <<demuxers, data, pc, idx, score, scan, result, calls>>

\* TestDemuxer::open: no state is consulted or changed
Open(p) == Call(p, "open", TestOpen)

\* TestDemuxer::read_headers: no state is consulted or changed
ReadHeaders(p) == Call(p, "read_headers", TestReadHeaders)

\* TestDemuxer::read_packet
ReadPacket(p) == Call(p, "read_packet", TestReadPacket)

(***************************************************************************)
(* Specifications                                                          *)
(***************************************************************************)
Next ==
    \/ \E p \in Invocations : ScanBuilder(p)
    \/ \E p \in Invocations : Return(p)
    \/ \E p \in Invocations : Alloc(p)
    \/ \E p \in Invocations : Open(p)
    \/ \E p \in Invocations : ReadHeaders(p)
    \/ \E p \in Invocations : ReadPacket(p)

\* One caller: probe, then alloc and the demuxer's lifecycle calls.
Spec == Init /\ [][Next]_vars

NextProbe ==
    \/ \E p \in Invocations : ScanBuilder(p)
    \/ \E p \in Invocations : Return(p)

\* Several probe() invocations interleaved step by step.
SpecConc == InitConc /\ [][NextProbe]_vars

\* One caller whose probe() invocation keeps running: the loop body and the
\* builders' probes are straight-line code that returns, so a step of the
\* scan that stays possible is eventually taken.
FairSpec == Spec /\ WF_vars(NextProbe)

(***************************************************************************)
(* Properties                                                              *)
(***************************************************************************)
\* The scores the registry's builders give to the sample of invocation p.
Scores(p) == [i \in 1..Len(demuxers) |-> BuilderProbe(demuxers[i], data[p])]

\* The builders scoring strictly above the EXTENSION threshold.
Above(p) == {i \in 1..Len(demuxers) : Scores(p)[i] > EXTENSION}

\* The builders attaining the maximum score.
Leaders(p) ==
    {i \in 1..Len(demuxers) : \A j \in 1..Len(demuxers) : Scores(p)[j] <= Scores(p)[i]}

Returned(p) == pc[p] = "done"

C2_FirstRegisteredWinsTies ==
    \A p \in Invocations :
        /\ scan[p].candidate # None =>
               /\ scan[p].candidate < idx[p]
               /\ Scores(p)[scan[p].candidate] = scan[p].max
               /\ \A i \in 1..(scan[p].candidate - 1) : Scores(p)[i] < scan[p].max
        /\ Returned(p) /\ Above(p) # {} =>
               /\ result[p] \in Leaders(p)
               /\ \A i \in Leaders(p) : result[p] <= i

\* C2 witness: several builders tie at the maximum score MAX and the first
\* of them has been returned.
C2_Witness ==
    \E p \in Invocations :
        /\ Returned(p)
        /\ Cardinality(Leaders(p)) >= 2
        /\ \A i \in Leaders(p) : Scores(p)[i] = MAX
        /\ result[p] \in Leaders(p)
        /\ \E i \in Leaders(p) : result[p] < i

C5_TestBuilderFirstByte ==
    \A p \in Invocations :
        Returned(p) /\ demuxers = <<TestDemuxerBuilder>>
            => ((result[p] = 1) <=> (data[p][1] = 0))
               /\ (data[p][1] # 0 => result[p] = None)

\* C5 witness: the test builder alone, a sample whose first byte is non-zero
\* and whose second byte is 0, and None returned.
C5_Witness ==
    \E p \in Invocations :
        /\ Returned(p)
        /\ demuxers = <<TestDemuxerBuilder>>
        /\ data[p][1] # 0
        /\ data[p][2] = 0
        /\ result[p] = None

\* The lifecycle state of the contract (Unopened -> Opened -> HeadersRead /
\* Streaming -> Exhausted) a demuxer is in after the calls of a log: only a
\* call that succeeded in the state that allows it moves the state.
RECURSIVE Phase(_)
Phase(log) ==
    IF log = <<>> THEN "Unopened"
    ELSE LET before == Phase(SubSeq(log, 1, Len(log) - 1))
             e == log[Len(log)]
         IN IF before = "Unopened" /\ e.op = "open" /\ e.out = "unit"
                THEN "Opened"
            ELSE IF before = "Opened" /\ e.op = "read_headers" /\ e.out = "Ok"
                THEN "Streaming"
            ELSE IF before = "Streaming" /\ e.op = "read_packet" /\ e.out = "eos"
                THEN "Exhausted"
            ELSE before

\* The call succeeded: it returned normally and without an error.
Succeeded(e) == e.out \in {"unit", "Ok", "packet"}

\* The operation the contract allows in a lifecycle state.
Legal(phase, op) ==
    \/ phase = "Unopened" /\ op = "open"
    \/ phase = "Opened" /\ op = "read_headers"
    \/ phase = "Streaming" /\ op = "read_packet"

\* C6: a call succeeds only in the lifecycle state that allows it: open is
\* the only operation accepted when Unopened, read_headers the only one when
\* Opened, read_packet is not accepted before read_headers, and nothing is
\* accepted once Exhausted.
C6_LifecycleOrdering ==
    \A p \in Invocations :
        \A k \in 1..Len(demux[p].log) :
            Succeeded(demux[p].log[k])
                => Legal(Phase(SubSeq(demux[p].log, 1, k - 1)), demux[p].log[k].op)

\* C7: on the demuxer allocated from the test builder selected by a sample
\* with first byte 0, after open() read_headers() succeeds and the first
\* read_packet() returns a packet or end-of-stream.
C7_FirstPacketOrEndOfStream ==
    \A p \in Invocations :
        /\ demux[p].allocated
        /\ data[p][1] = 0
        /\ Len(demux[p].log) >= 3
        /\ demux[p].log[1].op = "open"
        /\ demux[p].log[2].op = "read_headers"
        /\ demux[p].log[3].op = "read_packet"
        => /\ demux[p].log[2].out = "Ok"
           /\ demux[p].log[3].out \in {"packet", "eos"}

\* C8: under any interleaving of the invocations' steps, the locals of each
\* invocation are those of the same scan run alone, each invocation returns
\* what it returns when run alone, and the registry and the samples never
\* change.
C8_InvocationsIndependent ==
    /\ [](\A p \in Invocations :
            /\ scan[p] = ScanTo(demuxers, data[p], idx[p] - 1)
            /\ Returned(p) => result[p] = probe(demuxers, data[p]))
    /\ [][demuxers' = demuxers /\ data' = data]_vars

\* C8 witness: two invocations with different samples over one registry; the
\* first has returned a builder while the second, in the middle of its scan,
\* holds a different leader.
C8_Witness ==
    /\ Cardinality(Invocations) >= 2
    /\ data[1] # data[2]
    /\ Len(demuxers) = 2
    /\ Returned(1) /\ result[1] # None
    /\ pc[2] = "scan" /\ idx[2] = 2
    /\ scan[2] # ScanTo(demuxers, data[1], 1)

\* C9: the scan probes the builders one by one in registration order, each
\* exactly once and with the invocation's sample; it is never cut short (not
\* even after a score of MAX), it can always take its next step, and probe()
\* returns after exactly Len(demuxers) builder probes.
C9_FullScanInOrder ==
    /\ [](\A p \in Invocations :
            /\ idx[p] <= Len(demuxers) + 1
            /\ calls[p] = [k \in 1..(idx[p] - 1) |-> <<k, data[p]>>]
            /\ Returned(p) => Len(calls[p]) = Len(demuxers)
            /\ ~Returned(p) => ENABLED (ScanBuilder(p) \/ Return(p)))
    /\ <>(\A p \in Invocations : Returned(p))

\* C9 witness: the first of several builders scored MAX, and probe()
\* returned after probing every builder.
C9_Witness ==
    \E p \in Invocations :
        /\ Returned(p)
        /\ Len(demuxers) >= 2
        /\ Scores(p)[1] = MAX
        /\ Len(calls[p]) = Len(demuxers)
        /\ calls[p][Len(demuxers)] = <<Len(demuxers), data[p]>>

\* The registry reordered by the permutation q: position k holds the builder
\* registered at q[k].
Reordered(q) == [k \in 1..Len(demuxers) |-> demuxers[q[k]]]

\* C10: for every reordering of the registry, probe() matches iff it matches
\* on the registry as registered, the returned builders have the same score,
\* and when a single builder attains the maximum score the same builder is
\* returned.
C10_OrderOnlyBreaksTies ==
    \A p \in Invocations :
        Returned(p) /\ ~demux[p].allocated =>
            \A q \in Permutations(1..Len(demuxers)) :
                LET r == probe(Reordered(q), data[p])
                IN /\ (r = None) <=> (result[p] = None)
                   /\ r # None =>
                          Scores(p)[q[r]] = Scores(p)[result[p]]
                   /\ r # None /\ Cardinality(Leaders(p)) = 1 =>
                          q[r] = result[p]

\* C10 witness: a registry of three builders with distinct scores whose
\* single leader, registered last, has been returned.
C10_Witness ==
    \E p \in Invocations :
        /\ Returned(p)
        /\ Len(demuxers) = 3
        /\ Cardinality(Leaders(p)) = 1
        /\ Cardinality({Scores(p)[i] : i \in 1..3}) = 3
        /\ result[p] = 3

====
